---- MODULE Spec2Model ----
(***************************************************************************)
(* FreeRTOS priority-inversion demo (src/main.c): three workload tasks     *)
(* L < M < H, a state probe and a console control task, sharing one lock   *)
(* (xResLock).  The workload tasks, the control task and main() are        *)
(* translated from src/main.c.  The kernel they call (scheduler, mutex,    *)
(* notification, suspend/resume) is not part of src/ and is modelled from  *)
(* sections 3-5 of the specification.                                      *)
(***************************************************************************)
EXTENDS Integers, Sequences, FiniteSets, TLC

(* ------------------------------------------------------------------ *)
(* Program constants (src/main.c)                                      *)
(* ------------------------------------------------------------------ *)
tskIDLE_PRIORITY == 0
PRIO_LOW == tskIDLE_PRIORITY + 1
PRIO_MEDIUM == tskIDLE_PRIORITY + 2
PRIO_HIGH == tskIDLE_PRIORITY + 3

L_REPEAT_PERIOD_MS == 3000
H_START_DELAY_MS == 150
M_BURST_CYCLES == 50
HOLD_DELAY_PER_CHAR_MS == 10
\* vTaskDelay(pdMS_TO_TICKS(HOLD_DELAY_PER_CHAR_MS+100)) in use_shared_resource
HOLD_DELAY_EXTRA_MS == 100
\* vTaskDelay(pdMS_TO_TICKS(100)) in vTaskL before the resource use
L_PRE_DELAY_MS == 100
\* vTaskDelay(pdMS_TO_TICKS(1500)) at the end of H's cycle
H_SLEEP_MS == 1500
\* vTaskDelay(pdMS_TO_TICKS(1)) and (10) in vTaskM
M_SLICE_DELAY_MS == 1
M_PAUSE_MS == 10
\* vTaskDelay(pdMS_TO_TICKS(50)) in vStateProbe, (10) in vConsoleCtl
PROBE_PERIOD_MS == 50
CTL_PERIOD_MS == 10
\* strlen of bigMsg in vTaskL and of H's message
bigMsgLen == 72
hMsgLen == 31

\* Kernel configuration and result codes (FreeRTOSConfig.h / projdefs.h)
configTICK_RATE_HZ == 1000
pdPASS == 1
errCOULD_NOT_ALLOCATE_REQUIRED_MEMORY == -1

pdMS_TO_TICKS(ms) == (ms * configTICK_RATE_HZ) \div 1000
pdTICKS_TO_MS(ticks) == (ticks * 1000) \div configTICK_RATE_HZ

(* ------------------------------------------------------------------ *)
(* Bounds of the model                                                 *)
(* ------------------------------------------------------------------ *)
\* last tick of a run under SpecRef (source knobs)
MaxTickRef == 20000
\* TickType_t and BaseType_t are 32 bits wide; TLC's integers end at 2^31 - 1, so
\* the model keeps 30 bits of them (no run below reaches 2^29)
TickTypeBits == 30
\* M's CPU-burn per slice, in ticks (the busy loop's duration is not fixed by the
\* code), under SpecRef and under Spec
MaxLoad == 3
SmallMaxLoad == 1
\* scaled timing knobs of Spec: ticks of every short delay and of every long
\* sleep, characters per message, slices per burst
SmallDelay == 1
SmallPeriod == 2
SmallLenL == 2
SmallLenH == 1
SmallMCycles == 2

Tasks == {"L", "M", "H", "Probe", "Ctl"}
\* creation order in main()
TaskOrder == <<"L", "M", "H", "Probe", "Ctl">>
NoTask == "none"
Prios == tskIDLE_PRIORITY .. PRIO_HIGH
Keys == {"m", "n", "s", "d", "a", "f", "q", "w", "e", "other"}

\* priority argument of each xTaskCreate call in main()
BasePriority(t) ==
  CASE t = "L" -> PRIO_LOW
    [] t = "M" -> PRIO_MEDIUM
    [] t = "H" -> PRIO_HIGH
    [] t = "Probe" -> tskIDLE_PRIORITY
    [] t = "Ctl" -> PRIO_MEDIUM

\* RefCfg with use_shared_resource delaying HOLD_DELAY_PER_CHAR_MS alone
RefCfgNoExtra ==
  [ tLPre    |-> pdMS_TO_TICKS(L_PRE_DELAY_MS),
    tChar    |-> pdMS_TO_TICKS(HOLD_DELAY_PER_CHAR_MS),
    lenL     |-> bigMsgLen,
    lenH     |-> hMsgLen,
    tLRepeat |-> pdMS_TO_TICKS(L_REPEAT_PERIOD_MS),
    tHStart  |-> pdMS_TO_TICKS(H_START_DELAY_MS),
    tHSleep  |-> pdMS_TO_TICKS(H_SLEEP_MS),
    tMSlice  |-> pdMS_TO_TICKS(M_SLICE_DELAY_MS),
    tMPause  |-> pdMS_TO_TICKS(M_PAUSE_MS),
    mCycles  |-> M_BURST_CYCLES,
    tProbe   |-> pdMS_TO_TICKS(PROBE_PERIOD_MS),
    tCtl     |-> pdMS_TO_TICKS(CTL_PERIOD_MS),
    tickMod  |-> 2 ^ TickTypeBits,
    maxTick  |-> MaxTickRef,
    maxLoad  |-> MaxLoad ]

\* the timing knobs as the source sets them, in ticks
RefCfg ==
  [ tLPre    |-> pdMS_TO_TICKS(L_PRE_DELAY_MS),
    tChar    |-> pdMS_TO_TICKS(HOLD_DELAY_PER_CHAR_MS + HOLD_DELAY_EXTRA_MS),
    lenL     |-> bigMsgLen,
    lenH     |-> hMsgLen,
    tLRepeat |-> pdMS_TO_TICKS(L_REPEAT_PERIOD_MS),
    tHStart  |-> pdMS_TO_TICKS(H_START_DELAY_MS),
    tHSleep  |-> pdMS_TO_TICKS(H_SLEEP_MS),
    tMSlice  |-> pdMS_TO_TICKS(M_SLICE_DELAY_MS),
    tMPause  |-> pdMS_TO_TICKS(M_PAUSE_MS),
    mCycles  |-> M_BURST_CYCLES,
    tProbe   |-> pdMS_TO_TICKS(PROBE_PERIOD_MS),
    tCtl     |-> pdMS_TO_TICKS(CTL_PERIOD_MS),
    tickMod  |-> 2 ^ TickTypeBits,
    maxTick  |-> MaxTickRef,
    maxLoad  |-> MaxLoad ]

\* the same knobs scaled down, keeping 0 < tHStart < L's hold time; the tick
\* count is not kept (it stays 0): it is read only for H's log line
SmallCfg ==
  [ tLPre    |-> SmallDelay,
    tChar    |-> SmallDelay,
    lenL     |-> SmallLenL,
    lenH     |-> SmallLenH,
    tLRepeat |-> SmallPeriod,
    tHStart  |-> SmallDelay,
    tHSleep  |-> SmallPeriod,
    tMSlice  |-> SmallDelay,
    tMPause  |-> SmallDelay,
    mCycles  |-> SmallMCycles,
    tProbe   |-> SmallDelay,
    tCtl     |-> SmallDelay,
    tickMod  |-> 1,
    maxTick  |-> 1,
    maxLoad  |-> SmallMaxLoad ]

VARIABLES
  cfg,        \* timing knobs in force (RefCfg or SmallCfg), fixed at start
  USE_MUTEX,  \* the #define: 1 = mutex with inheritance, 0 = binary semaphore
  load,       \* ticks of CPU one busy slice of M burns
  heap,       \* what each allocation in main() returns
  pcMain,     \* position of main()
  ok,         \* main()'s BaseType_t ok
  ctx,        \* the scheduler context: TCBs, ready queues, lock, tick count
  pc,         \* position of each task function
  idx,        \* p - msg in use_shared_resource, per caller
  t0,         \* vTaskH's tick stamp before the take
  hWait,      \* the wait vTaskH logged for the lock it holds, in ms (-1: none)
  holdLeft,   \* measurement: L's remaining hold time, in ticks, when H called take
  c,          \* vTaskM's slice counter
  work        \* ticks left of M's current busy slice

vars == <<cfg, USE_MUTEX, load, heap, pcMain, ok, ctx, pc, idx, t0, hWait, holdLeft, c, work>>

(* ------------------------------------------------------------------ *)
(* Kernel: TCB store and ready queues (specification 3, 4.1)           *)
(* ------------------------------------------------------------------ *)
MaxOf(S) == CHOOSE x \in S : \A y \in S : x >= y

RemoveFromSeq(s, t) == SelectSeq(s, LAMBDA x : x # t)

RunningTask(K) ==
  IF \E t \in Tasks : K.tcb[t].state = "Running"
  THEN CHOOSE t \in Tasks : K.tcb[t].state = "Running"
  ELSE NoTask

Dequeue(K, t) == [K EXCEPT !.ready = [p \in Prios |-> RemoveFromSeq(K.ready[p], t)]]

Enqueue(K, t) == [K EXCEPT !.ready[K.tcb[t].eff] = Append(@, t)]

\* a task transitions to Ready: appended to the queue of its effective priority
MakeReady(K, t) ==
  Enqueue([K EXCEPT !.tcb[t].state = "Ready",
                    !.tcb[t].blockedOn = "none",
                    !.tcb[t].wakeDeadline = 0], t)

\* change a task's effective priority, moving it between ready queues if Ready
SetEffective(K, t, p) ==
  IF K.tcb[t].eff = p THEN K
  ELSE IF K.tcb[t].state = "Ready"
       THEN Enqueue([Dequeue(K, t) EXCEPT !.tcb[t].eff = p], t)
       ELSE [K EXCEPT !.tcb[t].eff = p]

\* highest effective priority Ready task, oldest first within a level
scheduleNext(K) ==
  IF \A p \in Prios : K.ready[p] = <<>> THEN NoTask
  ELSE Head(K.ready[MaxOf({p \in Prios : K.ready[p] # <<>>})])

Dispatch(K, n) == [Dequeue(K, n) EXCEPT !.tcb[n].state = "Running"]

\* a preemption rule that also switches to a Ready task of equal priority
RescheduleOnEqual(K) ==
  IF K.frozen THEN K
  ELSE LET r == RunningTask(K)
           n == scheduleNext(K)
       IN IF n = NoTask THEN K
          ELSE IF r = NoTask THEN Dispatch(K, n)
          ELSE IF K.tcb[n].eff >= K.tcb[r].eff THEN Dispatch(MakeReady(K, r), n)
          ELSE K

\* the preemption rule: switch only to a strictly higher Ready task; nothing
\* is decided while scheduling is globally suspended
Reschedule(K) ==
  IF K.frozen THEN K
  ELSE LET r == RunningTask(K)
           n == scheduleNext(K)
       IN IF n = NoTask THEN K
          ELSE IF r = NoTask THEN Dispatch(K, n)
          ELSE IF K.tcb[n].eff > K.tcb[r].eff THEN Dispatch(MakeReady(K, r), n)
          ELSE K

\* block(task, queue): the Running task parks; while scheduling is globally
\* suspended no dispatch occurs and the caller keeps running
Block(K, t, reason, deadline) ==
  IF K.frozen THEN K
  ELSE Reschedule([K EXCEPT !.tcb[t].state = "Blocked",
                            !.tcb[t].blockedOn = reason,
                            !.tcb[t].wakeDeadline = deadline])

\* sleep(task, duration): wakeDeadline = now + duration, kept as the ticks left
sleep(K, t, d) == Block(K, t, "sleep", d)

RECURSIVE WakeFrom(_, _)
WakeFrom(K, i) ==
  IF i > Len(TaskOrder) THEN K
  ELSE LET t == TaskOrder[i]
       IN IF K.tcb[t].state = "Blocked" /\ K.tcb[t].blockedOn = "sleep"
          THEN IF K.tcb[t].wakeDeadline <= 1
               THEN WakeFrom(MakeReady(K, t), i + 1)
               ELSE WakeFrom([K EXCEPT !.tcb[t].wakeDeadline = @ - 1], i + 1)
          ELSE WakeFrom(K, i + 1)

\* tick(): advance the clock, wake elapsed sleepers, reschedule
tick(K) == Reschedule(WakeFrom([K EXCEPT !.now = (@ + 1) % K.tickMod], 1))

(* ------------------------------------------------------------------ *)
(* Kernel: priority-inheritance mutex (specification 4.2)              *)
(* ------------------------------------------------------------------ *)
SeqToSet(s) == {s[i] : i \in 1 .. Len(s)}

\* inheritedCeiling = max(owner.basePriority, max effective priority of waiters)
Ceiling(K) ==
  MaxOf({K.tcb[K.lock.owner].base} \cup {K.tcb[w].eff : w \in SeqToSet(K.lock.waiters)})

\* apply the ceiling to the owner (only a lock created with inheritance)
Recompute(K) ==
  IF K.lock.owner = NoTask \/ ~K.lock.inherit THEN K
  ELSE SetEffective(K, K.lock.owner, Ceiling(K))

\* the waiter served next: highest effective priority, earliest enqueued among equals
BestWaiter(K) ==
  LET ws == K.lock.waiters
      i == CHOOSE i \in 1 .. Len(ws) :
             \A j \in 1 .. Len(ws) :
               /\ K.tcb[ws[j]].eff <= K.tcb[ws[i]].eff
               /\ (j < i => K.tcb[ws[j]].eff < K.tcb[ws[i]].eff)
  IN ws[i]

\* give that leaves the former owner at its inherited priority
giveKeepsPriority(K, t) ==
  IF K.lock.owner # t THEN [K EXCEPT !.error = "NotOwnerError"]
  ELSE LET K1 == [K EXCEPT !.lock.owner = NoTask]
       IN IF K1.lock.waiters = <<>> THEN Reschedule(K1)
          ELSE LET w == BestWaiter(K1)
                   K2 == [K1 EXCEPT !.lock.owner = w,
                                    !.lock.waiters = RemoveFromSeq(@, w)]
               IN Reschedule(Recompute(MakeReady(K2, w)))

\* give that frees the lock and only wakes the waiter to take again
giveNoHandoff(K, t) ==
  IF K.lock.owner # t THEN [K EXCEPT !.error = "NotOwnerError"]
  ELSE LET K1 == SetEffective([K EXCEPT !.lock.owner = NoTask], t, K.tcb[t].base)
       IN IF K1.lock.waiters = <<>> THEN Reschedule(K1)
          ELSE LET w == BestWaiter(K1)
                   K2 == [K1 EXCEPT !.lock.waiters = RemoveFromSeq(@, w)]
               IN Reschedule(MakeReady(K2, w))

take(K, t) ==
  IF K.lock.owner = NoTask THEN [K EXCEPT !.lock.owner = t]
  ELSE IF K.lock.owner = t THEN [K EXCEPT !.error = "DeadlockError"]
  ELSE Block(Recompute([K EXCEPT !.lock.waiters = Append(@, t)]), t, "mutex", 0)

give(K, t) ==
  IF K.lock.owner # t THEN [K EXCEPT !.error = "NotOwnerError"]
  ELSE LET K1 == SetEffective([K EXCEPT !.lock.owner = NoTask], t, K.tcb[t].base)
       IN IF K1.lock.waiters = <<>> THEN Reschedule(K1)
          ELSE LET w == BestWaiter(K1)
                   K2 == [K1 EXCEPT !.lock.owner = w,
                                    !.lock.waiters = RemoveFromSeq(@, w)]
               IN Reschedule(Recompute(MakeReady(K2, w)))

(* ------------------------------------------------------------------ *)
(* Kernel: notification channel and control surface (4.3, 4.4)         *)
(* ------------------------------------------------------------------ *)
notify(K, t) ==
  LET K1 == [K EXCEPT !.tcb[t].pending = TRUE]
  IN IF K.tcb[t].state = "Blocked" /\ K.tcb[t].blockedOn = "notify"
     THEN Reschedule(MakeReady(K1, t))
     ELSE K1

suspend(K, t) ==
  IF K.tcb[t].state \in {"Suspended", "NotCreated"} THEN K
  ELSE LET K1 == [Dequeue(K, t) EXCEPT !.tcb[t].state = "Suspended",
                                       !.tcb[t].blockedOn = "none",
                                       !.tcb[t].wakeDeadline = 0,
                                       !.lock.waiters = RemoveFromSeq(@, t)]
       IN Reschedule(Recompute(K1))

resume(K, t) ==
  IF K.tcb[t].state # "Suspended" THEN K
  ELSE Reschedule(MakeReady(K, t))

suspendAll(K) == [K EXCEPT !.frozen = TRUE]

resumeAll(K) == Reschedule([K EXCEPT !.frozen = FALSE])

(* ------------------------------------------------------------------ *)
(* Initial state: before main() runs                                   *)
(* ------------------------------------------------------------------ *)
NoTCB ==
  [state |-> "NotCreated", base |-> tskIDLE_PRIORITY, eff |-> tskIDLE_PRIORITY,
   blockedOn |-> "none", wakeDeadline |-> 0, pending |-> FALSE]

InitCtx(k) ==
  [tcb |-> [t \in Tasks |-> NoTCB],
   ready |-> [p \in Prios |-> <<>>],
   lock |-> [created |-> FALSE, owner |-> NoTask, waiters |-> <<>>, inherit |-> FALSE],
   now |-> 0, tickMod |-> k.tickMod, frozen |-> FALSE, error |-> "none"]

InitWith(k) ==
  /\ cfg = k
  /\ USE_MUTEX \in {0, 1}
  /\ load \in 0 .. k.maxLoad
  /\ heap = [x \in Tasks \cup {"lock"} |-> pdPASS]
  /\ pcMain = "create_lock"
  /\ ok = pdPASS
  /\ ctx = InitCtx(k)
  /\ pc = [t \in Tasks |->
            CASE t = "L" -> "take" [] t = "M" -> "loop" [] t = "H" -> "start"
              [] t = "Probe" -> "probe" [] t = "Ctl" -> "poll"]
  /\ idx = [t \in {"L", "H"} |-> 0]
  /\ t0 = 0 /\ hWait = -1 /\ holdLeft = 0
  /\ c = 0 /\ work = 0

Init == InitWith(SmallCfg)

\* the outcomes of the six allocations main() makes: all succeed, or one fails
\* (xSemaphoreCreate* returns NULL, xTaskCreate returns
\* errCOULD_NOT_ALLOCATE_REQUIRED_MEMORY)
HeapOutcomes ==
  { h \in [Tasks \cup {"lock"} -> {pdPASS, errCOULD_NOT_ALLOCATE_REQUIRED_MEMORY}] :
      Cardinality({x \in Tasks \cup {"lock"} : h[x] # pdPASS}) <= 1 }

\* main() entered with any of these outcomes ahead of it
InitBoot ==
  /\ cfg = SmallCfg
  /\ USE_MUTEX \in {0, 1}
  /\ load \in 0 .. SmallCfg.maxLoad
  /\ heap \in HeapOutcomes
  /\ pcMain = "create_lock"
  /\ ok = pdPASS
  /\ ctx = InitCtx(SmallCfg)
  /\ pc = [t \in Tasks |->
            CASE t = "L" -> "take" [] t = "M" -> "loop" [] t = "H" -> "start"
              [] t = "Probe" -> "probe" [] t = "Ctl" -> "poll"]
  /\ idx = [t \in {"L", "H"} |-> 0]
  /\ t0 = 0 /\ hWait = -1 /\ holdLeft = 0
  /\ c = 0 /\ work = 0
InitRef == InitWith(RefCfg)

(* ------------------------------------------------------------------ *)
(* main() and create_lock()                                            *)
(* ------------------------------------------------------------------ *)
RECURSIVE BitAndNat(_, _)
BitAndNat(a, b) ==
  IF a = 0 \/ b = 0 THEN 0
  ELSE 2 * BitAndNat(a \div 2, b \div 2) + (IF a % 2 = 1 /\ b % 2 = 1 THEN 1 ELSE 0)

\* a & b on two's complement BaseType_t
BitAnd(a, b) ==
  LET m == 2 ^ TickTypeBits
      u == BitAndNat(a % m, b % m)
  IN IF u >= m \div 2 THEN u - m ELSE u

\* create_lock() taking the binary-semaphore branch whatever USE_MUTEX says
create_lockBinary ==
  /\ pcMain = "create_lock"
  /\ ctx' = [ctx EXCEPT !.lock = [created |-> TRUE, owner |-> NoTask,
                                   waiters |-> <<>>, inherit |-> FALSE]]
  /\ pcMain' = "create_L"
  /\ UNCHANGED <<cfg, USE_MUTEX, load, heap, ok, pc, idx, t0, hWait, holdLeft, c, work>>

\* create_lock() taking the mutex branch whatever USE_MUTEX says
create_lockMutex ==
  /\ pcMain = "create_lock"
  /\ ctx' = [ctx EXCEPT !.lock = [created |-> TRUE, owner |-> NoTask,
                                   waiters |-> <<>>, inherit |-> TRUE]]
  /\ pcMain' = "create_L"
  /\ UNCHANGED <<cfg, USE_MUTEX, load, heap, ok, pc, idx, t0, hWait, holdLeft, c, work>>

\* create_lock(): both branches of #if USE_MUTEX create the lock unlocked;
\* only the mutex carries priority inheritance
create_lock ==
  /\ pcMain = "create_lock"
  /\ IF heap["lock"] = pdPASS
     THEN /\ ctx' = [ctx EXCEPT !.lock = [created |-> TRUE, owner |-> NoTask,
                                          waiters |-> <<>>, inherit |-> (USE_MUTEX = 1)]]
          /\ pcMain' = "create_L"
     ELSE /\ ctx' = ctx
          /\ pcMain' = "aborted"
  /\ UNCHANGED <<cfg, USE_MUTEX, load, heap, ok, pc, idx, t0, hWait, holdLeft, c, work>>

\* xTaskCreate: a created task is Ready at its base priority
xTaskCreate(K, t, prio) ==
  Enqueue([K EXCEPT !.tcb[t].state = "Ready", !.tcb[t].base = prio, !.tcb[t].eff = prio], t)

NextCreate(t) ==
  CASE t = "L" -> "create_M" [] t = "M" -> "create_H" [] t = "H" -> "create_Probe"
    [] t = "Probe" -> "create_Ctl" [] t = "Ctl" -> "assert"

CreatePc(t) ==
  CASE t = "L" -> "create_L" [] t = "M" -> "create_M" [] t = "H" -> "create_H"
    [] t = "Probe" -> "create_Probe" [] t = "Ctl" -> "create_Ctl"

\* ok &= xTaskCreate(...)
main_xTaskCreate(t) ==
  /\ pcMain = CreatePc(t)
  /\ ctx' = IF heap[t] = pdPASS THEN xTaskCreate(ctx, t, BasePriority(t)) ELSE ctx
  /\ ok' = BitAnd(ok, heap[t])
  /\ pcMain' = NextCreate(t)
  /\ UNCHANGED <<cfg, USE_MUTEX, load, heap, pc, idx, t0, hWait, holdLeft, c, work>>

\* configASSERT(ok == pdPASS)
main_assert ==
  /\ pcMain = "assert"
  /\ pcMain' = IF ok = pdPASS THEN "start" ELSE "aborted"
  /\ UNCHANGED <<cfg, USE_MUTEX, load, heap, ok, ctx, pc, idx, t0, hWait, holdLeft, c, work>>

\* the scheduler started without dispatching the first task
vTaskStartSchedulerNoDispatch ==
  /\ pcMain = "start"
  /\ pcMain' = "scheduling"
  /\ UNCHANGED <<cfg, USE_MUTEX, load, heap, ok, ctx, pc, idx, t0, hWait, holdLeft, c, work>>

\* vTaskStartScheduler(): the first dispatch
vTaskStartScheduler ==
  /\ pcMain = "start"
  /\ pcMain' = "scheduling"
  /\ ctx' = Reschedule(ctx)
  /\ UNCHANGED <<cfg, USE_MUTEX, load, heap, ok, pc, idx, t0, hWait, holdLeft, c, work>>

(* ------------------------------------------------------------------ *)
(* Workload tasks                                                      *)
(* ------------------------------------------------------------------ *)
IsRunning(t) == pcMain = "scheduling" /\ ctx.tcb[t].state = "Running"

\* xSemaphoreTake(xResLock, portMAX_DELAY): returns only once the caller owns the
\* lock; a caller made Ready again without the lock (resume) takes again
xSemaphoreTake(t, next) ==
  IF pc[t] = "takeWait" /\ ctx.lock.owner = t
  THEN /\ ctx' = ctx
       /\ pc' = [pc EXCEPT ![t] = next]
  ELSE LET K == take(ctx, t)
       IN /\ ctx' = K
          /\ pc' = [pc EXCEPT ![t] = IF K.lock.owner = t /\ K.error = "none"
                                      THEN next ELSE "takeWait"]

MsgLen(t) == IF t = "L" THEN cfg.lenL ELSE cfg.lenH

\* one iteration of use_shared_resource's loop: putchar, then vTaskDelay
use_shared_resource(t) ==
  /\ IsRunning(t)
  /\ pc[t] = "use"
  /\ idx[t] < MsgLen(t)
  /\ idx' = [idx EXCEPT ![t] = @ + 1]
  /\ ctx' = sleep(ctx, t, cfg.tChar)
  /\ UNCHANGED <<cfg, USE_MUTEX, load, heap, pcMain, ok, pc, t0, hWait, holdLeft, c, work>>

\* vTaskL taking with no wait and not testing the result
L_TakeUnchecked ==
  /\ IsRunning("L")
  /\ pc["L"] \in {"take", "takeWait"}
  /\ ctx' = IF ctx.lock.owner = NoTask THEN take(ctx, "L") ELSE ctx
  /\ pc' = [pc EXCEPT !["L"] = "pre"]
  /\ UNCHANGED <<cfg, USE_MUTEX, load, heap, pcMain, ok, idx, t0, hWait, holdLeft, c, work>>

L_Take ==
  /\ IsRunning("L")
  /\ pc["L"] \in {"take", "takeWait"}
  /\ xSemaphoreTake("L", "pre")
  /\ UNCHANGED <<cfg, USE_MUTEX, load, heap, pcMain, ok, idx, t0, hWait, holdLeft, c, work>>

L_PreDelay ==
  /\ IsRunning("L")
  /\ pc["L"] = "pre"
  /\ ctx' = sleep(ctx, "L", cfg.tLPre)
  /\ idx' = [idx EXCEPT !["L"] = 0]
  /\ pc' = [pc EXCEPT !["L"] = "use"]
  /\ UNCHANGED <<cfg, USE_MUTEX, load, heap, pcMain, ok, t0, hWait, holdLeft, c, work>>

L_Use == use_shared_resource("L")

\* vTaskL leaving its critical section without the xSemaphoreGive
L_GiveOmitted ==
  /\ IsRunning("L")
  /\ pc["L"] = "use"
  /\ idx["L"] = MsgLen("L")
  /\ pc' = [pc EXCEPT !["L"] = "repeat"]
  /\ UNCHANGED <<cfg, USE_MUTEX, load, heap, pcMain, ok, ctx, idx, t0, hWait, holdLeft, c, work>>

L_Give ==
  /\ IsRunning("L")
  /\ pc["L"] = "use"
  /\ idx["L"] = MsgLen("L")
  /\ ctx' = give(ctx, "L")
  /\ pc' = [pc EXCEPT !["L"] = "repeat"]
  /\ UNCHANGED <<cfg, USE_MUTEX, load, heap, pcMain, ok, idx, t0, hWait, holdLeft, c, work>>

L_Repeat ==
  /\ IsRunning("L")
  /\ pc["L"] = "repeat"
  /\ ctx' = sleep(ctx, "L", cfg.tLRepeat)
  /\ pc' = [pc EXCEPT !["L"] = "take"]
  /\ UNCHANGED <<cfg, USE_MUTEX, load, heap, pcMain, ok, idx, t0, hWait, holdLeft, c, work>>

H_Start ==
  /\ IsRunning("H")
  /\ pc["H"] = "start"
  /\ ctx' = sleep(ctx, "H", cfg.tHStart)
  /\ pc' = [pc EXCEPT !["H"] = "take"]
  /\ UNCHANGED <<cfg, USE_MUTEX, load, heap, pcMain, ok, idx, t0, hWait, holdLeft, c, work>>

\* the ticks L has yet to sleep inside its critical section: the rest of the
\* delay it is in, the delay before the resource use and one delay per character
RemainingHold ==
  LET left == IF ctx.tcb["L"].state = "Blocked" /\ ctx.tcb["L"].blockedOn = "sleep"
              THEN ctx.tcb["L"].wakeDeadline ELSE 0
  IN CASE pc["L"] = "pre" -> cfg.tLPre + cfg.lenL * cfg.tChar
       [] pc["L"] = "use" -> left + (cfg.lenL - idx["L"]) * cfg.tChar
       [] OTHER -> 0

\* vTaskH going on when its take call returns, without testing that it got the lock
H_TakeUnchecked ==
  /\ IsRunning("H")
  /\ pc["H"] \in {"take", "takeWait"}
  /\ t0' = IF pc["H"] = "take" THEN ctx.now ELSE t0
  /\ holdLeft' = IF pc["H"] = "take" THEN RemainingHold ELSE holdLeft
  /\ IF pc["H"] = "takeWait"
     THEN ctx' = ctx /\ pc' = [pc EXCEPT !["H"] = "stamp"]
     ELSE xSemaphoreTake("H", "stamp")
  /\ UNCHANGED <<cfg, USE_MUTEX, load, heap, pcMain, ok, idx, hWait, c, work>>

\* t0 = xTaskGetTickCount(); xSemaphoreTake(...)
H_Take ==
  /\ IsRunning("H")
  /\ pc["H"] \in {"take", "takeWait"}
  /\ t0' = IF pc["H"] = "take" THEN ctx.now ELSE t0
  /\ holdLeft' = IF pc["H"] = "take" THEN RemainingHold ELSE holdLeft
  /\ xSemaphoreTake("H", "stamp")
  /\ UNCHANGED <<cfg, USE_MUTEX, load, heap, pcMain, ok, idx, hWait, c, work>>

\* t1 = xTaskGetTickCount(); logf(... pdTICKS_TO_MS(t1 - t0))
H_Stamp ==
  /\ IsRunning("H")
  /\ pc["H"] = "stamp"
  /\ hWait' = pdTICKS_TO_MS((ctx.now - t0) % ctx.tickMod)
  /\ t0' = 0
  /\ idx' = [idx EXCEPT !["H"] = 0]
  /\ pc' = [pc EXCEPT !["H"] = "use"]
  /\ UNCHANGED <<cfg, USE_MUTEX, load, heap, pcMain, ok, ctx, holdLeft, c, work>>

H_Use == use_shared_resource("H")

H_Give ==
  /\ IsRunning("H")
  /\ pc["H"] = "use"
  /\ idx["H"] = MsgLen("H")
  /\ ctx' = give(ctx, "H")
  /\ hWait' = -1
  /\ holdLeft' = 0
  /\ pc' = [pc EXCEPT !["H"] = "sleep"]
  /\ UNCHANGED <<cfg, USE_MUTEX, load, heap, pcMain, ok, idx, t0, c, work>>

H_Sleep ==
  /\ IsRunning("H")
  /\ pc["H"] = "sleep"
  /\ ctx' = sleep(ctx, "H", cfg.tHSleep)
  /\ pc' = [pc EXCEPT !["H"] = "take"]
  /\ UNCHANGED <<cfg, USE_MUTEX, load, heap, pcMain, ok, idx, t0, hWait, holdLeft, c, work>>

\* for (c = 0; c < M_BURST_CYCLES; ++c): enter a busy slice or leave the burst
M_Loop ==
  /\ IsRunning("M")
  /\ pc["M"] = "loop"
  /\ IF c < cfg.mCycles
     THEN pc' = [pc EXCEPT !["M"] = "burn"] /\ work' = load
     ELSE pc' = [pc EXCEPT !["M"] = "pause"] /\ work' = work
  /\ UNCHANGED <<cfg, USE_MUTEX, load, heap, pcMain, ok, ctx, idx, t0, hWait, holdLeft, c>>

\* the busy slice is done: vTaskDelay(pdMS_TO_TICKS(1)); ++c
M_EndSlice ==
  /\ IsRunning("M")
  /\ pc["M"] = "burn"
  /\ work = 0
  /\ ctx' = sleep(ctx, "M", cfg.tMSlice)
  /\ c' = c + 1
  /\ pc' = [pc EXCEPT !["M"] = "loop"]
  /\ UNCHANGED <<cfg, USE_MUTEX, load, heap, pcMain, ok, idx, t0, hWait, holdLeft, work>>

\* vTaskDelay(pdMS_TO_TICKS(10)) between bursts
M_Pause ==
  /\ IsRunning("M")
  /\ pc["M"] = "pause"
  /\ ctx' = sleep(ctx, "M", cfg.tMPause)
  /\ c' = 0
  /\ pc' = [pc EXCEPT !["M"] = "loop"]
  /\ UNCHANGED <<cfg, USE_MUTEX, load, heap, pcMain, ok, idx, t0, hWait, holdLeft, work>>

vStateProbe ==
  /\ IsRunning("Probe")
  /\ ctx' = sleep(ctx, "Probe", cfg.tProbe)
  /\ UNCHANGED <<cfg, USE_MUTEX, load, heap, pcMain, ok, pc, idx, t0, hWait, holdLeft, c, work>>

(* ------------------------------------------------------------------ *)
(* vConsoleCtl                                                         *)
(* ------------------------------------------------------------------ *)
\* the switch with the 'q' and 'w' cases exchanged
CommandSwappedQW(K, k) ==
  CASE k = "m" -> suspend(K, "M")
    [] k = "n" -> resume(K, "M")
    [] k = "s" -> suspend(K, "L")
    [] k = "d" -> resume(K, "L")
    [] k = "a" -> suspend(K, "H")
    [] k = "f" -> resume(K, "H")
    [] k = "q" -> resumeAll(K)
    [] k = "w" -> suspendAll(K)
    [] k = "e" -> notify(K, "H")
    [] OTHER -> K

\* the switch with the 's' case also giving the lock L may hold
CommandSuspendReleases(K, k) ==
  CASE k = "m" -> suspend(K, "M")
    [] k = "n" -> resume(K, "M")
    [] k = "s" -> IF K.lock.owner = "L" THEN suspend(give(K, "L"), "L") ELSE suspend(K, "L")
    [] k = "d" -> resume(K, "L")
    [] k = "a" -> suspend(K, "H")
    [] k = "f" -> resume(K, "H")
    [] k = "q" -> suspendAll(K)
    [] k = "w" -> resumeAll(K)
    [] k = "e" -> notify(K, "H")
    [] OTHER -> K

\* the switch with the 'm' and 'n' cases exchanged
CommandSwapped(K, k) ==
  CASE k = "m" -> resume(K, "M")
    [] k = "n" -> suspend(K, "M")
    [] k = "s" -> suspend(K, "L")
    [] k = "d" -> resume(K, "L")
    [] k = "a" -> suspend(K, "H")
    [] k = "f" -> resume(K, "H")
    [] k = "q" -> suspendAll(K)
    [] k = "w" -> resumeAll(K)
    [] k = "e" -> notify(K, "H")
    [] OTHER -> K

\* the switch with 'e' notifying hM
CommandNotifyM(K, k) ==
  CASE k = "m" -> suspend(K, "M")
    [] k = "n" -> resume(K, "M")
    [] k = "s" -> suspend(K, "L")
    [] k = "d" -> resume(K, "L")
    [] k = "a" -> suspend(K, "H")
    [] k = "f" -> resume(K, "H")
    [] k = "q" -> suspendAll(K)
    [] k = "w" -> resumeAll(K)
    [] k = "e" -> notify(K, "M")
    [] OTHER -> K

\* the switch (c) of vConsoleCtl
Command(K, k) ==
  CASE k = "m" -> suspend(K, "M")
    [] k = "n" -> resume(K, "M")
    [] k = "s" -> suspend(K, "L")
    [] k = "d" -> resume(K, "L")
    [] k = "a" -> suspend(K, "H")
    [] k = "f" -> resume(K, "H")
    [] k = "q" -> suspendAll(K)
    [] k = "w" -> resumeAll(K)
    [] k = "e" -> notify(K, "H")
    [] OTHER -> K

\* _kbhit() is false: vTaskDelay(pdMS_TO_TICKS(10))
Ctl_Idle ==
  /\ IsRunning("Ctl")
  /\ pc["Ctl"] = "poll"
  /\ ctx' = sleep(ctx, "Ctl", cfg.tCtl)
  /\ UNCHANGED <<cfg, USE_MUTEX, load, heap, pcMain, ok, pc, idx, t0, hWait, holdLeft, c, work>>

\* _kbhit() is true: c = _getch(); switch (c)
Ctl_Key(k) ==
  /\ IsRunning("Ctl")
  /\ pc["Ctl"] = "poll"
  /\ ctx' = Command(ctx, k)
  /\ pc' = [pc EXCEPT !["Ctl"] = "delay"]
  /\ UNCHANGED <<cfg, USE_MUTEX, load, heap, pcMain, ok, idx, t0, hWait, holdLeft, c, work>>

\* the vTaskDelay(pdMS_TO_TICKS(10)) after a command
Ctl_Delay ==
  /\ IsRunning("Ctl")
  /\ pc["Ctl"] = "delay"
  /\ ctx' = sleep(ctx, "Ctl", cfg.tCtl)
  /\ pc' = [pc EXCEPT !["Ctl"] = "poll"]
  /\ UNCHANGED <<cfg, USE_MUTEX, load, heap, pcMain, ok, idx, t0, hWait, holdLeft, c, work>>

(* ------------------------------------------------------------------ *)
(* The tick interrupt                                                  *)
(* ------------------------------------------------------------------ *)
Burning == IsRunning("M") /\ pc["M"] = "burn" /\ work > 0

\* time passes only while the processor is idle, burns M's busy slice, or spins
\* in the control task with scheduling globally suspended: every other step of
\* a task takes no time
Tick ==
  /\ pcMain = "scheduling"
  /\ ctx.now < cfg.maxTick
  /\ RunningTask(ctx) = NoTask \/ Burning \/ ctx.frozen
  /\ work' = IF Burning THEN work - 1 ELSE work
  /\ ctx' = tick(ctx)
  /\ UNCHANGED <<cfg, USE_MUTEX, load, heap, pcMain, ok, pc, idx, t0, hWait, holdLeft, c>>

NextRef ==
  \/ create_lock
  \/ \E t \in Tasks : main_xTaskCreate(t)
  \/ main_assert
  \/ vTaskStartScheduler
  \/ L_Take \/ L_PreDelay \/ L_Use \/ L_Give \/ L_Repeat
  \/ H_Start \/ H_Take \/ H_Stamp \/ H_Use \/ H_Give \/ H_Sleep
  \/ M_Loop \/ M_EndSlice \/ M_Pause
  \/ vStateProbe
  \/ Ctl_Idle
  \/ Tick

Next ==
  \/ NextRef
  \/ \E k \in Keys : Ctl_Key(k)
  \/ Ctl_Delay

Spec == Init /\ [][Next]_vars
SpecRef == InitRef /\ [][NextRef]_vars
\* no console input, and the processor never halts: the Running task's next
\* step, or the tick when nothing runs, is eventually taken
SpecLive == Init /\ [][NextRef]_vars /\ WF_vars(NextRef)
\* startup with allocation failures, no console input
SpecBoot == InitBoot /\ [][NextRef]_vars
\* the processor never halts: some step is taken whenever one is possible
SpecFair == Init /\ [][Next]_vars /\ WF_vars(Next)

(* ------------------------------------------------------------------ *)
(* Properties                                                          *)
(* ------------------------------------------------------------------ *)
State(t) == ctx.tcb[t].state
Eff(t) == ctx.tcb[t].eff
Base(t) == ctx.tcb[t].base
Waiters == SeqToSet(ctx.lock.waiters)
WaitsOnLock(t) == State(t) = "Blocked" /\ ctx.tcb[t].blockedOn = "mutex"

\* between a successful take and the matching give
InCS(t) == IF t = "L" THEN pc["L"] \in {"pre", "use"} ELSE pc["H"] \in {"stamp", "use"}

\* C1: mutual exclusion. L and H are never both between a successful take and
\* the matching give, under any interleaving of tasks, ticks and commands.
C1_MutualExclusion == ~(InCS("L") /\ InCS("H"))

\* L is inside its critical section while H is parked in its take
C1_Witness == InCS("L") /\ pc["H"] = "takeWait" /\ WaitsOnLock("H")

\* H has logged the wait of an acquisition on which it found the lock held by L
LoggedBlockedWait == hWait # -1 /\ holdLeft > 0

\* C2: inheritance bound. With inheritance, every wait H logs is at most L's
\* remaining hold time at the moment H called take (scheduling overhead 0),
\* whatever M's load is.
C2_InheritanceBound ==
  (USE_MUTEX = 1 /\ hWait # -1) => hWait <= pdTICKS_TO_MS(holdLeft)

\* H waited for L's lock while M burned CPU in every slice
C2_Witness == USE_MUTEX = 1 /\ LoggedBlockedWait /\ load = cfg.maxLoad /\ load > 0

\* C3: with inheritance, while L owns the lock, H is blocked on it, L is Ready
\* or Running and scheduling is not globally suspended, neither M nor the
\* control task (both created at PRIO_MEDIUM) is Running.
C3_NoMediumPreemption ==
  ( /\ USE_MUTEX = 1
    /\ ctx.lock.owner = "L"
    /\ WaitsOnLock("H")
    /\ State("L") \in {"Ready", "Running"}
    /\ ~ctx.frozen )
  => (State("M") # "Running" /\ State("Ctl") # "Running")

\* the boosted owner runs while M is Ready
C3_Witness ==
  /\ USE_MUTEX = 1 /\ ctx.lock.owner = "L" /\ WaitsOnLock("H")
  /\ State("L") = "Running" /\ State("M") = "Ready" /\ ~ctx.frozen

\* C4: with inheritance, an owner's effective priority is the maximum of its
\* base priority and its waiters' effective priorities; so L runs at H's
\* priority exactly while H waits on the lock L owns, and at its base priority
\* when H is not a waiter (also after H was suspended out of the waiters).
C4_InheritanceInvariant ==
  (USE_MUTEX = 1 /\ ctx.lock.owner # NoTask) =>
    /\ Eff(ctx.lock.owner) = MaxOf({Base(ctx.lock.owner)} \cup {Eff(w) : w \in Waiters})
    /\ ctx.lock.owner = "L" =>
         IF "H" \in Waiters THEN Eff("L") = Eff("H") /\ Eff("L") = PRIO_HIGH
         ELSE Eff("L") = PRIO_LOW

\* H blocked in its take on L's lock and was then suspended: L is back at its base
C4_Witness ==
  /\ USE_MUTEX = 1 /\ ctx.lock.owner = "L" /\ pc["H"] = "takeWait"
  /\ State("H") = "Suspended" /\ Eff("L") = PRIO_LOW

\* C5: priority restoration. A task that does not own the lock (in particular
\* the task that has just given it) runs at its base priority.
C5_PriorityRestoration ==
  \A t \in Tasks : ctx.lock.owner # t => Eff(t) = Base(t)

\* L has given the lock it held boosted: H owns it, L is back at PRIO_LOW
C5_Witness ==
  /\ USE_MUTEX = 1 /\ pc["L"] = "repeat" /\ ctx.lock.owner = "H"
  /\ pc["H"] = "stamp" /\ Eff("L") = PRIO_LOW /\ State("L") = "Ready"

HoldTicks == cfg.tLPre + cfg.lenL * cfg.tChar

\* H's first acquisition: L cannot have begun its second cycle
FirstCycle == ctx.now < HoldTicks + cfg.tLRepeat

\* C7 as stated: L holds for 750 units (75 characters at 10 units), H blocks 0
\* units after L's take, and H's wait with inheritance is about 750 units
\* (within a tenth).
C7_About750 ==
  /\ (pc["L"] = "pre") => RemainingHold = 75 * pdMS_TO_TICKS(HOLD_DELAY_PER_CHAR_MS)
  /\ (USE_MUTEX = 1 /\ LoggedBlockedWait /\ FirstCycle) =>
       (hWait >= 675 /\ hWait <= 825)

\* C7 amended: L holds for 100 ms + 72 characters x 110 ms = 8020 ms, H calls
\* take 150 ms after start, and with inheritance H's first wait is 7870 ms plus
\* at most two busy slices of M (the delay of L's first two wake-ups).
C7_ReferenceWait ==
  /\ (pc["L"] = "pre") =>
       RemainingHold = pdMS_TO_TICKS(L_PRE_DELAY_MS)
                       + bigMsgLen * pdMS_TO_TICKS(HOLD_DELAY_PER_CHAR_MS + HOLD_DELAY_EXTRA_MS)
  /\ (USE_MUTEX = 1 /\ LoggedBlockedWait /\ FirstCycle) =>
       LET base == pdTICKS_TO_MS(pdMS_TO_TICKS(L_PRE_DELAY_MS)
                     + bigMsgLen * pdMS_TO_TICKS(HOLD_DELAY_PER_CHAR_MS + HOLD_DELAY_EXTRA_MS)
                     - pdMS_TO_TICKS(H_START_DELAY_MS))
       IN hWait >= base /\ hWait <= base + 2 * pdTICKS_TO_MS(load)

\* H's first logged wait in the reference scenario, with inheritance
C7_Witness ==
  USE_MUTEX = 1 /\ LoggedBlockedWait /\ FirstCycle /\ hWait >= 7870 /\ load > 0

SuspendKey(t) == CASE t = "M" -> "m" [] t = "L" -> "s" [] t = "H" -> "a"
ResumeKey(t) == CASE t = "M" -> "n" [] t = "L" -> "d" [] t = "H" -> "f"

\* C9: suspend/resume idempotence. A suspend command for a task that is
\* Suspended, and a resume command for a task that is not, leave the whole
\* scheduler context unchanged.
C9_Idempotence ==
  [][ \A t \in {"L", "M", "H"} :
        /\ (Ctl_Key(SuspendKey(t)) /\ State(t) = "Suspended") => ctx' = ctx
        /\ (Ctl_Key(ResumeKey(t)) /\ State(t) # "Suspended") => ctx' = ctx ]_vars

\* a command has just run while all three workload tasks are Suspended
C9_Witness ==
  /\ pc["Ctl"] = "delay" /\ State("Ctl") = "Running"
  /\ \A t \in {"L", "M", "H"} : State(t) = "Suspended"

C10_Remembered ==
  [][ /\ Ctl_Key("e") => ctx' = [ctx EXCEPT !.tcb["H"].pending = TRUE]
      /\ ctx.tcb["H"].pending => ctx'.tcb["H"].pending ]_vars

\* the notification is still pending after H has gone through a whole cycle
C10_Witness ==
  ctx.tcb["H"].pending /\ pc["H"] = "sleep" /\ State("H") = "Running"

InReady(t) == \E p \in Prios : t \in SeqToSet(ctx.ready[p])

\* C11: a Suspended task is scheduling-invisible. While L, M or H is Suspended
\* it is in no ready queue and not among the lock's waiters, no step makes it
\* the lock's owner, and only its own resume command ends the suspension.
C11_SuspendedInvisible ==
  [][ \A t \in {"L", "M", "H"} :
        State(t) = "Suspended" =>
          /\ ~InReady(t) /\ t \notin Waiters
          /\ (ctx.lock.owner # t => ctx'.lock.owner # t)
          /\ (State(t)' # "Suspended" => Ctl_Key(ResumeKey(t))) ]_vars

\* H was suspended inside its take and L has given the lock since: nobody owns it
C11_Witness ==
  /\ State("H") = "Suspended" /\ pc["H"] = "takeWait"
  /\ pc["L"] = "repeat" /\ ctx.lock.owner = NoTask

\* C12: global suspension. From the 'q' command until the next 'w' command the
\* task that was Running (the control task, which issued 'q') stays the
\* Running task and scheduling stays suspended: no tick, wake-up or command
\* dispatches another task.
C12_FrozenRunning ==
  [][ (ctx.frozen /\ ~Ctl_Key("w")) =>
        /\ ctx'.frozen
        /\ RunningTask(ctx') = RunningTask(ctx)
        /\ RunningTask(ctx) = "Ctl" ]_vars

\* H's wake deadline elapsed while scheduling is suspended: H is Ready, above
\* the control task, and does not preempt it
C12_Witness ==
  /\ ctx.frozen /\ State("Ctl") = "Running"
  /\ State("H") = "Ready" /\ pc["H"] = "take"

\* C13: creation failure is fatal. If the creation of the lock or of one of the
\* five tasks fails, startup aborts before the scheduler is started and no task
\* ever runs.
C13_CreationFatal ==
  (\E x \in Tasks \cup {"lock"} : heap[x] # pdPASS) =>
    /\ pcMain \notin {"start", "scheduling"}
    /\ \A t \in Tasks : State(t) # "Running"

\* the task has finished use_shared_resource and is about to call xSemaphoreGive
AboutToGive(t) == pc[t] = "use" /\ idx[t] = MsgLen(t)

\* C14: no error path. No give or take has failed, every give is about to be
\* issued by the lock's owner (no NotOwnerError), and no task enters a take
\* while it owns the lock (no DeadlockError), under any interleaving of tasks,
\* ticks and commands.
C14_NoErrorPath ==
  /\ ctx.error = "none"
  /\ \A t \in {"L", "H"} :
       /\ AboutToGive(t) => ctx.lock.owner = t
       /\ pc[t] = "take" => ctx.lock.owner # t

\* L is about to give the lock H waits for
C14_Witness ==
  /\ AboutToGive("L") /\ State("L") = "Running" /\ WaitsOnLock("H")
  /\ ctx.error = "none"

\* C15: notifications are a saturating single slot. Every event command leaves
\* exactly H's pending flag set and nothing else changed; sent while a
\* notification is already pending, it leaves the whole scheduler context as
\* the first one left it.
C15_SingleSlot ==
  [][ Ctl_Key("e") =>
        /\ ctx' = [ctx EXCEPT !.tcb["H"].pending = TRUE]
        /\ (ctx.tcb["H"].pending => ctx' = ctx) ]_vars

\* a notification is pending and the control task polls for the next key
C15_Witness ==
  /\ ctx.tcb["H"].pending /\ pc["Ctl"] = "poll" /\ State("Ctl") = "Running"
  /\ \A t \in Tasks \ {"H"} : ~ctx.tcb[t].pending

\* the tasks a step makes runnable: Blocked or Suspended before, Ready or Running after
Woken == {t \in Tasks : State(t) \in {"Blocked", "Suspended"} /\ State(t)' \in {"Ready", "Running"}}

\* C16: dispatch invariant. While scheduling is not globally suspended the
\* Running task's effective priority is at least that of every Ready task; a
\* step that makes a task runnable (tick, give, resume) while the Running task
\* stays runnable preempts it exactly when a woken task has strictly higher
\* effective priority, and leaves it Running when none has.
C16_Dispatch ==
  [][ (pcMain = "scheduling" /\ ~ctx.frozen /\ ~ctx'.frozen) =>
        /\ \A r, t \in Tasks :
             (State(r)' = "Running" /\ State(t)' = "Ready") => Eff(r)' >= Eff(t)'
        /\ \A r \in Tasks :
             (State(r) = "Running" /\ Woken # {} /\ State(r)' \in {"Ready", "Running"}) =>
               IF \E t \in Woken : Eff(t)' > Eff(r)'
               THEN State(r)' = "Ready" /\ RunningTask(ctx') \in Woken
               ELSE State(r)' = "Running" ]_vars

\* M was resumed by the control task, its equal in priority, and waits its turn
C16_Witness ==
  /\ ~ctx.frozen /\ State("Ctl") = "Running" /\ pc["Ctl"] = "delay"
  /\ State("M") = "Ready" /\ Eff("M") = Eff("Ctl")

\* C17: take returns only to the owner. L and H are between their take and
\* their give only while they own the lock, also when the task was suspended
\* while blocked inside take and resumed while the other task still owns it.
C17_TakeReturnsToOwner ==
  \A t \in {"L", "H"} : InCS(t) => ctx.lock.owner = t

\* H, suspended inside take and resumed, runs inside take while L owns the lock
C17_Witness ==
  /\ pc["H"] = "takeWait" /\ State("H") = "Running"
  /\ ctx.lock.owner = "L" /\ InCS("L")

\* C18: single processor. Once the scheduler has started at most one task is
\* Running, and no task is Running only when no task is Ready.
C18_SingleProcessor ==
  pcMain = "scheduling" =>
    /\ Cardinality({t \in Tasks : State(t) = "Running"}) <= 1
    /\ ( (\A t \in Tasks : State(t) # "Running")
           => \A t \in Tasks : State(t) # "Ready" )

\* the processor is idle: every task is Blocked or Suspended
C18_Witness ==
  /\ pcMain = "scheduling" /\ ~ctx.frozen
  /\ \A t \in Tasks : State(t) \in {"Blocked", "Suspended"}
  /\ State("M") = "Suspended"

\* C19: no starvation on the lock. With inheritance and no control command,
\* every take by L and every take by H is eventually followed by that task
\* owning the lock, and both complete their take/use/give cycle infinitely
\* often, whatever M's load.
C19_NoStarvation ==
  /\ \A t \in {"L", "H"} :
       (USE_MUTEX = 1 /\ pcMain = "scheduling" /\ pc[t] \in {"take", "takeWait"})
         ~> (ctx.lock.owner = t)
  /\ []<>(USE_MUTEX = 1 => pc["L"] = "repeat")
  /\ []<>(USE_MUTEX = 1 => pc["H"] = "sleep")

\* under M's load L has finished a cycle and handed the lock to H, which waited
C19_Witness ==
  /\ USE_MUTEX = 1 /\ load > 0 /\ pc["L"] = "repeat"
  /\ ctx.lock.owner = "H" /\ pc["H"] = "takeWait"

\* C20: suspending the owner does not release the lock. While L is Suspended
\* and owns the lock, every step leaves L the owner unless it is L's resume
\* command, and H, blocked in its take, acquires the lock only by a give of L.
C20_SuspendedOwnerKeepsLock ==
  [][ /\ (State("L") = "Suspended" /\ ctx.lock.owner = "L") =>
           (ctx'.lock.owner = "L" /\ (State("L")' # "Suspended" => Ctl_Key("d")))
      /\ (ctx.lock.owner = "L" /\ ctx'.lock.owner # "L") =>
           (L_Give /\ State("L") = "Running") ]_vars

\* L is Suspended inside its critical section while H waits for the lock
C20_Witness ==
  /\ State("L") = "Suspended" /\ ctx.lock.owner = "L" /\ InCS("L")
  /\ WaitsOnLock("H")

====
